---- MODULE Spec2Model ----
(***************************************************************************)
(* Model of the Jira Connect add-on (src/app.js, with its earlier          *)
(* revisions src/unnamed/part_000 and src/unnamed/part_001).               *)
(*                                                                         *)
(* Text is modelled as a sequence of lexical tokens: the Markdown fence of *)
(* three backticks, the word "json", a whitespace run, the JSON literals   *)
(* "{}" and "null", and the double quote.  JavaScript values are records   *)
(* [t |-> type, v |-> payload].                                            *)
(***************************************************************************)
EXTENDS Integers, Sequences, FiniteSets, TLC

VARIABLES env, req, outbound, responses, console

vars == <<env, req, outbound, responses, console>>

\* ------------------------------------------------------------------ bounds

\* Number of request slots of the server.
NumReqs == 1

\* Longest AI text core (in tokens) enumerated by the normalizer specification.
MaxLen == 3

Reqs == 1..NumReqs

\* ------------------------------------------------------------------ text

\* The Markdown fence: three backticks.
TICKS == "<fence>"
JSONW == "json"
WS == " "
QUOTE == "\""

Chars == {TICKS, JSONW, WS, "{}", "null", QUOTE}

RECURSIVE SeqsUpTo(_)
SeqsUpTo(n) ==
    IF n = 0 THEN {<<>>}
    ELSE LET shorter == SeqsUpTo(n - 1)
         IN  shorter \cup {Append(s, c) : s \in {x \in shorter : Len(x) = n - 1}, c \in Chars}

Range(s) == {s[i] : i \in DOMAIN s}

\* String.prototype.startsWith
StartsWith(s, p) == Len(s) >= Len(p) /\ SubSeq(s, 1, Len(p)) = p

RECURSIVE TrimStart(_)
TrimStart(s) == IF s # <<>> /\ Head(s) = WS THEN TrimStart(Tail(s)) ELSE s

RECURSIVE TrimEnd(_)
TrimEnd(s) ==
    IF s # <<>> /\ s[Len(s)] = WS THEN TrimEnd(SubSeq(s, 1, Len(s) - 1)) ELSE s

\* String.prototype.trim
Trim(s) == TrimEnd(TrimStart(s))

\* s.replace(/<fence>json\s*/g, ''): every occurrence, wherever it stands.
RECURSIVE ReplaceJsonFence(_)
ReplaceJsonFence(s) ==
    IF s = <<>> THEN <<>>
    ELSE IF Len(s) >= 2 /\ s[1] = TICKS /\ s[2] = JSONW
         THEN ReplaceJsonFence(TrimStart(SubSeq(s, 3, Len(s))))
         ELSE <<Head(s)>> \o ReplaceJsonFence(Tail(s))

\* s.replace(/<fence>\s*/g, ''): every occurrence, wherever it stands.
RECURSIVE ReplaceFence(_)
ReplaceFence(s) ==
    IF s = <<>> THEN <<>>
    ELSE IF s[1] = TICKS
         THEN ReplaceFence(TrimStart(Tail(s)))
         ELSE <<Head(s)>> \o ReplaceFence(Tail(s))

\* The fence cleaning of the enhancement handler.
CleanFences(enhanced) ==
    LET cleanedText == Trim(enhanced)
    IN  IF StartsWith(cleanedText, <<TICKS, JSONW>>)
        THEN ReplaceFence(ReplaceJsonFence(cleanedText))
        ELSE IF StartsWith(cleanedText, <<TICKS>>)
             THEN ReplaceFence(cleanedText)
             ELSE cleanedText

\* ------------------------------------------------------------------ JSON

\* Position of the first double quote of s at or after i, 0 when there is none.
RECURSIVE QuoteFrom(_, _)
QuoteFrom(s, i) ==
    IF i > Len(s) THEN 0
    ELSE IF s[i] = QUOTE THEN i ELSE QuoteFrom(s, i + 1)

UnexpectedToken(tok) == <<"Unexpected token", tok, "in JSON">>
UnexpectedEnd == <<"Unexpected end of JSON input">>

\* JSON.parse: [ok, kind, chars, message].  Leading and trailing whitespace is
\* allowed; the text is one literal ({} or null) or one string.
JSONParse(text) ==
    LET s == Trim(text)
        Fail(m) == [ok |-> FALSE, kind |-> "error", chars |-> <<>>, message |-> m]
        Value(k, c) == [ok |-> TRUE, kind |-> k, chars |-> c, message |-> <<>>]
    IN  IF s = <<>> THEN Fail(UnexpectedEnd)
        ELSE IF s[1] = "{}"
             THEN IF Len(s) = 1 THEN Value("object", <<>>) ELSE Fail(UnexpectedToken(s[2]))
        ELSE IF s[1] = "null"
             THEN IF Len(s) = 1 THEN Value("null", <<>>) ELSE Fail(UnexpectedToken(s[2]))
        ELSE IF s[1] = QUOTE
             THEN LET j == QuoteFrom(s, 2)
                  IN  IF j = 0 THEN Fail(UnexpectedEnd)
                      ELSE IF j = Len(s) THEN Value("string", SubSeq(s, 2, j - 1))
                      ELSE Fail(UnexpectedToken(s[j + 1]))
        ELSE Fail(UnexpectedToken(s[1]))

\* JSON.stringify(value, null, 2) of a parsed value.
JSONStringify(value) ==
    IF value.kind = "object" THEN <<"{}">>
    ELSE IF value.kind = "null" THEN <<"null">>
    ELSE <<QUOTE>> \o value.chars \o <<QUOTE>>

\* ------------------------------------------------------------------ JavaScript values

Undefined == [t |-> "undefined", v |-> <<>>]
Null == [t |-> "null", v |-> <<>>]
Str(s) == [t |-> "str", v |-> s]
Num(n) == [t |-> "num", v |-> n]
Arr(s) == [t |-> "arr", v |-> s]
Obj(f) == [t |-> "obj", v |-> f]

Nullish(x) == x.t \in {"undefined", "null"}

\* !x
Falsy(x) == Nullish(x) \/ (x.t = "str" /\ x.v = <<>>) \/ (x.t = "num" /\ x.v = 0)

\* x[k] on a value that is neither null nor undefined.
Get(x, k) == IF x.t = "obj" /\ k \in DOMAIN x.v THEN x.v[k] ELSE Undefined

\* x[i], i counted from 0.
At(x, i) == IF x.t = "arr" /\ (i + 1) \in DOMAIN x.v THEN x.v[i + 1] ELSE Undefined

\* x?.k and x?.[i]
OptGet(x, k) == IF Nullish(x) THEN Undefined ELSE Get(x, k)
OptAt(x, i) == IF Nullish(x) THEN Undefined ELSE At(x, i)

\* `${x}` of a template literal.
TemplateStr(x) ==
    IF x.t = "str" THEN x.v
    ELSE IF x.t = "undefined" THEN <<"undefined">>
    ELSE IF x.t = "null" THEN <<"null">>
    ELSE <<"[object]">>

\* const enhanced = data.candidates?.[0]?.content?.parts?.[0]?.text;
\* the first access is a plain one: on null it throws a TypeError.
ExtractText(data) ==
    IF Nullish(data)
    THEN [threw |-> TRUE, value |-> Undefined,
          message |-> <<"Cannot read properties of null (reading 'candidates')">>]
    ELSE [threw |-> FALSE, message |-> <<>>,
          value |-> OptGet(OptAt(OptGet(OptGet(OptAt(Get(data, "candidates"), 0),
                                               "content"), "parts"), 0), "text")]

\* ------------------------------------------------------------------ the AI provider's replies

Candidate(c) == Obj([candidates |-> Arr(<<c>>)])
Parts(p) == Candidate(Obj([content |-> Obj([parts |-> p])]))
WithText(x) == Parts(Arr(<<Obj([text |-> x])>>))

\* Decoded bodies in which the candidate text is missing at some level.
TextlessEnvelopes ==
    { Null,
      Obj([error |-> Str(<<"API key not valid">>)]),
      Obj([candidates |-> Arr(<<>>)]),
      Candidate(Null),
      Candidate(Obj([finishReason |-> Str(<<"SAFETY">>)])),
      Candidate(Obj([content |-> Obj([role |-> Str(<<"model">>)])])),
      Parts(Arr(<<>>)),
      Parts(Arr(<<Obj([inlineData |-> Str(<<"png">>)])>>)) }

\* An AI text: a core, possibly wrapped in a leading and a trailing fence.
FencePrefixes == {<<>>, <<TICKS, JSONW>>, <<TICKS, JSONW, WS>>, <<TICKS>>, <<TICKS, WS>>}
FenceSuffixes == {<<>>, <<TICKS>>, <<WS, TICKS>>}

Wrap(w) == w.pre \o w.core \o w.suf

Wrapped(cores) == [pre : FencePrefixes, core : cores, suf : FenceSuffixes]

\* The texts of the request specification: a few of each kind.
SampleTexts ==
    [pre : {<<>>, <<TICKS, JSONW, WS>>},
     core : {<<"{}">>, <<QUOTE, TICKS, WS, JSONW, QUOTE>>, <<"null">>, <<JSONW>>},
     suf : {<<>>, <<WS, TICKS>>}]
        \cup [pre : {<<>>}, core : {<<>>, <<WS>>}, suf : {<<>>}]

\* The texts of the normalizer specification: every core up to MaxLen tokens.
AllTexts == Wrapped(SeqsUpTo(MaxLen))

\* ------------------------------------------------------------------ configuration

\* The revisions of the application: the earliest (part_000) and the latest
\* (app.js; part_001 differs from it in the prompt text only).
Revisions == {"part_000", "app"}

\* process.env.GEMINI_API_KEY: unset, empty, or a key.
SECRET == "AIzaSECRET"
ApiKeys == {Undefined, Str(<<>>), Str(<<SECRET>>)}

Routes(rev) ==
    IF rev = "part_000"
    THEN {"/", "/installed", "/render-refiner", "/enhance-description", "/update-description"}
    ELSE {"/health", "/render-panel", "/render-refiner", "/enhance-description",
          "/update-description"}

ApiRoutes == {"/enhance-description", "/update-description"}
RenderRoutes == {"/render-panel", "/render-refiner"}
Protected == ApiRoutes \cup RenderRoutes

\* A faulty variant of the binding: every protected route behind the skip-QSH gate.
RouteGateAllSkip(rev, route) == "skipQsh"

\* The gate bound to a protected route: addon.authenticate() or authenticateSkipQsh.
RouteGate(rev, route) ==
    IF route \in ApiRoutes /\ rev # "part_000" THEN "skipQsh" ELSE "strict"

\* ------------------------------------------------------------------ requests

\* The token of a request: whether its signature verifies, and whether the query
\* hash it attests matches the one recomputed from the request.
Tokens == [sigValid : BOOLEAN, qshMatch : BOOLEAN]

NoBody == [currentDescription |-> Undefined, issueKey |-> Undefined,
           newDescription |-> Undefined]

Bodies(route) ==
    IF route = "/enhance-description"
    THEN {NoBody, [NoBody EXCEPT !.currentDescription = Str(<<"button doesn't work">>)]}
    ELSE IF route = "/update-description"
    THEN {[NoBody EXCEPT !.issueKey = Str(<<"PROJ-1">>), !.newDescription = Str(<<"Fixed">>)],
          [NoBody EXCEPT !.issueKey = Str(<<"PROJ-2">>),
                         !.newDescription = Str(<<QUOTE, "Fixed", QUOTE, WS>>)]}
    ELSE {NoBody}

NoReply == [kind |-> "none", data |-> Undefined, text |-> [pre |-> <<>>, core |-> <<>>, suf |-> <<>>],
            status |-> 0, body |-> Undefined]

IdleReq == [pc |-> "idle", route |-> "none", token |-> [sigValid |-> FALSE, qshMatch |-> FALSE],
            body |-> NoBody, reply |-> NoReply, handlerRan |-> FALSE]

\* ------------------------------------------------------------------ responses

NoFields == [success |-> FALSE, error |-> <<>>, enhancedDescription |-> <<>>]

\* res.status(status).json(obj): keys are the properties JSON.stringify keeps
\* (a property whose value is undefined is dropped).
JsonResponse(status, keys, fields) ==
    [status |-> status, type |-> "json", keys |-> keys, success |-> fields.success,
     error |-> fields.error, enhancedDescription |-> fields.enhancedDescription]

\* res.status(500).json({ success: false, error: message })
ErrorResponse(status, message) ==
    JsonResponse(status, {"success", "error"}, [NoFields EXCEPT !.error = message])

\* A response that is no JSON object of this application.
OtherResponse(status, type) ==
    [status |-> status, type |-> type, keys |-> {}, success |-> FALSE,
     error |-> <<>>, enhancedDescription |-> <<>>]

Send(r, resp) == responses' = [responses EXCEPT ![r] = Append(@, resp)]
Log(line) == console' = console \cup {line}
Goto(r, pc) == req' = [req EXCEPT ![r].pc = pc]

\* The route's handler is entered (handlerRan records it) and runs up to pc.
Handle(r, pc) == req' = [req EXCEPT ![r].pc = pc, ![r].handlerRan = TRUE]

\* ------------------------------------------------------------------ Init

Init ==
    /\ env \in [rev : Revisions, apiKey : ApiKeys, expressErrorHandling : BOOLEAN]
    /\ req = [r \in Reqs |-> IdleReq]
    /\ outbound = [r \in Reqs |-> <<>>]
    /\ responses = [r \in Reqs |-> <<>>]
    /\ console = {}

\* A faulty variant of the arrival: a request is taken up only while no other
\* request is in flight.
ArriveSerial(r, routes, tokens, bodies) ==
    /\ req[r].pc = "idle"
    /\ \A q \in DOMAIN req : q # r => req[q].pc \in {"idle", "done"}
    /\ \E route \in routes, token \in tokens :
         \E body \in bodies[route] :
           req' = [req EXCEPT ![r] = [@ EXCEPT !.pc = IF route \in Protected THEN "gate"
                                                      ELSE "handler",
                                               !.route = route, !.token = token,
                                               !.body = body]]
    /\ UNCHANGED <<env, outbound, responses, console>>

\* A request for one of routes, with one of tokens and one of the bodies of its
\* route, arrives and Express routes it: the protected routes go through their
\* gate first, the others straight to their handler.
Arrive(r, routes, tokens, bodies) ==
    /\ req[r].pc = "idle"
    /\ \E route \in routes, token \in tokens :
         \E body \in bodies[route] :
           req' = [req EXCEPT ![r] = [@ EXCEPT !.pc = IF route \in Protected THEN "gate"
                                                      ELSE "handler",
                                               !.route = route, !.token = token,
                                               !.body = body]]
    /\ UNCHANGED <<env, outbound, responses, console>>

\* Any request of the revision arrives.
Receive(r) ==
    Arrive(r, Routes(env.rev), Tokens, [route \in Routes(env.rev) |-> Bodies(route)])

\* ------------------------------------------------------------------ Auth Gate

\* addon.authenticate(skipQsh): the signed token must verify; the query hash is
\* compared too unless skipQsh is set.
Verify(skipQsh, token) == token.sigValid /\ (skipQsh \/ token.qshMatch)

\* The message of the library's verification error.
AuthErrorMessage(token) ==
    IF ~token.sigValid THEN <<"Invalid JWT: signature verification failed">>
    ELSE <<"Authentication failed: query hash does not match.">>

\* a || b on strings
OrElse(a, b) == IF a = <<>> THEN b ELSE a

\* The callback of authenticateSkipQsh when it is handed an error.
SkipQshReject(message) ==
    [log |-> {<<"Auth Error:">> \o message},
     response |-> ErrorResponse(401, <<"Authentication failed: ">>
                                         \o OrElse(message, <<"Unknown error">>))]

\* What follows a failed verification.  The library either answers the request
\* itself, or (with Express error handling configured) passes the error on: to
\* the callback of authenticateSkipQsh, or, on a route bound to
\* addon.authenticate() directly, to Express's error handler.
GateReject(gate, expressErrorHandling, token) ==
    IF ~expressErrorHandling
    THEN [log |-> {}, response |-> OtherResponse(401, "library")]
    ELSE IF gate = "skipQsh"
    THEN SkipQshReject(AuthErrorMessage(token))
    ELSE [log |-> {}, response |-> OtherResponse(500, "express-error")]

\* A faulty variant of the gate: the request is passed on whatever the
\* verification says.
AuthGateOpen(r) ==
    /\ req[r].pc = "gate"
    /\ Goto(r, "handler")
    /\ UNCHANGED <<env, outbound, responses, console>>

AuthGate(r) ==
    /\ req[r].pc = "gate"
    /\ LET gate == RouteGate(env.rev, req[r].route)
       IN  IF Verify(gate = "skipQsh", req[r].token)
           THEN /\ Goto(r, "handler")
                /\ UNCHANGED <<responses, console>>
           ELSE LET out == GateReject(gate, env.expressErrorHandling, req[r].token)
                IN  /\ Send(r, out.response)
                    /\ console' = console \cup out.log
                    /\ Goto(r, "done")
    /\ UNCHANGED <<env, outbound>>

\* ------------------------------------------------------------------ plain routes

\* GET /health (GET / in part_000)
Health(r) ==
    /\ req[r].pc = "handler"
    /\ req[r].route \in {"/health", "/"}
    /\ Send(r, OtherResponse(200, "text"))
    /\ Handle(r, "done")
    /\ UNCHANGED <<env, outbound, console>>

\* POST /installed (part_000)
Installed(r) ==
    /\ req[r].pc = "handler"
    /\ req[r].route = "/installed"
    /\ Send(r, OtherResponse(200, "status"))
    /\ Handle(r, "done")
    /\ UNCHANGED <<env, outbound, console>>

\* GET /render-panel
RenderPanel(r) ==
    /\ req[r].pc = "handler"
    /\ req[r].route = "/render-panel"
    /\ Send(r, OtherResponse(200, "public/panel.html"))
    /\ Handle(r, "done")
    /\ UNCHANGED <<env, outbound, console>>

\* GET /render-refiner
RenderRefiner(r) ==
    /\ req[r].pc = "handler"
    /\ req[r].route = "/render-refiner"
    /\ Send(r, OtherResponse(200, "public/index.html"))
    /\ Handle(r, "done")
    /\ UNCHANGED <<env, outbound, console>>

\* ------------------------------------------------------------------ POST /enhance-description

\* The request URL of the AI call: the key is a query parameter.
GeminiUrl(apiKey) ==
    <<"https://generativelanguage.googleapis.com/v1beta/models/gemini-2.5-flash:generateContent?key=">>
        \o TemplateStr(apiKey)

\* The instruction text: the description is interpolated as it is.
Prompt(rev, currentDescription) ==
    IF rev = "part_000"
    THEN <<"Improve this Jira issue description clearly and professionally:">>
             \o TemplateStr(currentDescription)
    ELSE <<"You are a professional Jira issue enhancer. Original Description: ", QUOTE>>
             \o TemplateStr(currentDescription)
             \o <<QUOTE, "Write in a professional, detailed, explanatory style.">>

\* The JSON body of the AI call.
GeminiPayload(rev, currentDescription) ==
    LET contents ==
            Arr(<<Obj([parts |-> Arr(<<Obj([text |-> Str(Prompt(rev, currentDescription))])>>)])>>)
    IN  IF rev = "part_000"
        THEN Obj([contents |-> contents])
        ELSE Obj([contents |-> contents,
                  generationConfig |->
                      Obj([temperature |-> Str(<<"0.7">>),
                           response_mime_type |-> Str(<<"application/json">>),
                           response_schema |-> Obj([type |-> Str(<<"object">>)])])])

\* if (!apiKey) return res.status(500).json(...)
MissingKeyResponse(rev) ==
    ErrorResponse(500, IF rev = "part_000" THEN <<"GEMINI_API_KEY", " missing">>
                       ELSE <<"GEMINI_API_KEY", " not set">>)

\* The messages of the errors fetch() and response.json() reject with: both
\* name the request URL.
FetchFailedMessage(url) == <<"request to ">> \o url \o <<" failed, reason: ", "ECONNREFUSED">>
InvalidBodyMessage(url) ==
    <<"invalid json response body at ">> \o url \o <<" reason: ", "Unexpected token < in JSON">>

\* A faulty variant of the catch: the caught message is replaced by a fixed one.
CatchGeminiGeneric(rev, message) ==
    [log |-> IF rev = "part_000" THEN {} ELSE {<<"Gemini error:">> \o message},
     response |-> ErrorResponse(500, <<"Enhancement failed">>)]

\* catch (e) { console.error('Gemini error:', e); res.status(500).json(...) }
\* (part_000 does not log)
CatchGemini(rev, message) ==
    [log |-> IF rev = "part_000" THEN {} ELSE {<<"Gemini error:">> \o message},
     response |-> ErrorResponse(500, message)]

\* res.json({ success: true, enhancedDescription: text })
EnhancedResponse(text) ==
    JsonResponse(200, {"success", "enhancedDescription"},
                 [NoFields EXCEPT !.success = TRUE, !.enhancedDescription = text])

\* The handler from the decoded body on: extraction, fence cleaning, parsing,
\* re-serialization, with every throw caught by the handler's catch.
Normalize(rev, data) ==
    LET ex == ExtractText(data)
        enhanced == ex.value
    IN  IF ex.threw THEN CatchGemini(rev, ex.message)
        ELSE IF Falsy(enhanced) THEN CatchGemini(rev, <<"Invalid Gemini response">>)
        ELSE IF enhanced.t # "str" THEN CatchGemini(rev, <<"enhanced.trim is not a function">>)
        ELSE IF rev = "part_000"
        THEN [log |-> {}, response |-> EnhancedResponse(Trim(enhanced.v))]
        ELSE LET jsonResult == JSONParse(CleanFences(enhanced.v))
             IN  IF ~jsonResult.ok THEN CatchGemini(rev, jsonResult.message)
                 ELSE IF jsonResult.kind = "null"
                 THEN CatchGemini(rev, <<"Cannot convert undefined or null to object">>)
                 ELSE [log |-> {<<"Gemini returned valid JSON:", jsonResult.kind>>},
                       response |-> EnhancedResponse(JSONStringify(jsonResult))]

\* A faulty variant of the handler: the key check is missing, so the fetch is
\* issued whatever the configuration.
EnhanceDescriptionUnchecked(r) ==
    /\ req[r].pc = "handler"
    /\ req[r].route = "/enhance-description"
    /\ outbound' = [outbound EXCEPT ![r] = Append(@,
                       [to |-> "gemini", method |-> "POST",
                        url |-> GeminiUrl(env.apiKey),
                        payload |-> GeminiPayload(env.rev, req[r].body.currentDescription)])]
    /\ Handle(r, "awaitFetch")
    /\ UNCHANGED <<env, responses, console>>

\* A faulty variant of the handler: the return of the key check is missing, so
\* the handler answers 500 and goes on to the fetch.
EnhanceDescriptionNoReturn(r) ==
    /\ req[r].pc = "handler"
    /\ req[r].route = "/enhance-description"
    /\ IF Falsy(env.apiKey)
       THEN Send(r, MissingKeyResponse(env.rev))
       ELSE UNCHANGED responses
    /\ outbound' = [outbound EXCEPT ![r] = Append(@,
                       [to |-> "gemini", method |-> "POST",
                        url |-> GeminiUrl(env.apiKey),
                        payload |-> GeminiPayload(env.rev, req[r].body.currentDescription)])]
    /\ Handle(r, "awaitFetch")
    /\ UNCHANGED <<env, console>>

\* The handler up to its first await: the key check, then the one fetch().
EnhanceDescription(r) ==
    /\ req[r].pc = "handler"
    /\ req[r].route = "/enhance-description"
    /\ IF Falsy(env.apiKey)
       THEN /\ Send(r, MissingKeyResponse(env.rev))
            /\ Handle(r, "done")
            /\ UNCHANGED outbound
       ELSE /\ outbound' = [outbound EXCEPT ![r] = Append(@,
                               [to |-> "gemini", method |-> "POST",
                                url |-> GeminiUrl(env.apiKey),
                                payload |-> GeminiPayload(env.rev, req[r].body.currentDescription)])]
            /\ Handle(r, "awaitFetch")
            /\ UNCHANGED responses
    /\ UNCHANGED <<env, console>>

\* Statuses the AI provider answers with; the handler does not read them.
AiStatuses == {200, 400}

\* A faulty variant of the settling: a transport failure is retried once.
FetchSettledRetry(r) ==
    /\ req[r].pc = "awaitFetch"
    /\ \/ /\ Len(outbound[r]) < 2
          /\ outbound' = [outbound EXCEPT ![r] = Append(@, @[1])]
          /\ UNCHANGED <<req, responses, console>>
       \/ /\ \E status \in {200, 400} :
               req' = [req EXCEPT ![r].pc = "awaitJson", ![r].reply.kind = "resolved",
                                  ![r].reply.status = status]
          /\ UNCHANGED <<outbound, responses, console>>
    /\ UNCHANGED env

\* await fetch(...) settles: it rejects on a transport failure, and resolves
\* with whatever status the provider sent.
FetchSettled(r) ==
    /\ req[r].pc = "awaitFetch"
    /\ \/ LET out == CatchGemini(env.rev, FetchFailedMessage(GeminiUrl(env.apiKey)))
          IN  /\ req' = [req EXCEPT ![r].pc = "done", ![r].reply.kind = "reject"]
              /\ Send(r, out.response)
              /\ console' = console \cup out.log
       \/ /\ \E status \in AiStatuses :
               req' = [req EXCEPT ![r].pc = "awaitJson", ![r].reply.kind = "resolved",
                                  ![r].reply.status = status]
          /\ UNCHANGED <<responses, console>>
    /\ UNCHANGED <<env, outbound>>

\* The decoded bodies the provider can send, given the texts it may produce.
Envelopes(texts) ==
    [data : TextlessEnvelopes \cup {WithText(Str(<<>>)), WithText(Num(42))},
     text : {NoReply.text}]
        \cup {[data |-> WithText(Str(Wrap(w))), text |-> w] : w \in texts}

\* await response.json() settles, and the handler runs to its end.
JsonSettled(r, texts) ==
    /\ req[r].pc = "awaitJson"
    /\ \/ LET out == CatchGemini(env.rev, InvalidBodyMessage(GeminiUrl(env.apiKey)))
          IN  /\ req' = [req EXCEPT ![r].pc = "done", ![r].reply.kind = "nonJson"]
              /\ Send(r, out.response)
              /\ console' = console \cup out.log
       \/ \E e \in Envelopes(texts) :
            LET out == Normalize(env.rev, e.data)
            IN  /\ req' = [req EXCEPT ![r].pc = "done", ![r].reply.kind = "json",
                                      ![r].reply.data = e.data, ![r].reply.text = e.text]
                /\ Send(r, out.response)
                /\ console' = console \cup out.log
    /\ UNCHANGED <<env, outbound>>

\* ------------------------------------------------------------------ PUT /update-description

\* A faulty variant of the document: the text is trimmed before it is wrapped.
JiraPayloadTrimmed(newDescription) ==
    LET text == IF newDescription.t = "str" THEN Str(Trim(newDescription.v))
                ELSE newDescription
    IN  Obj([fields |->
            Obj([description |->
                Obj([type |-> Str(<<"doc">>),
                     version |-> Num(1),
                     content |-> Arr(<<Obj([type |-> Str(<<"paragraph">>),
                                            content |-> Arr(<<Obj([type |-> Str(<<"text">>),
                                                                   text |-> text])>>)])>>)])])])

\* The document sent to Jira: one paragraph holding one text node.
JiraPayload(newDescription) ==
    Obj([fields |->
        Obj([description |->
            Obj([type |-> Str(<<"doc">>),
                 version |-> Num(1),
                 content |-> Arr(<<Obj([type |-> Str(<<"paragraph">>),
                                        content |-> Arr(<<Obj([type |-> Str(<<"text">>),
                                                               text |-> newDescription])>>)])>>)])])])

JiraUrl(issueKey) == <<"/rest/api/3/issue/">> \o TemplateStr(issueKey)

\* The handler: it builds the document and issues the one httpClient.put().
UpdateDescription(r) ==
    /\ req[r].pc = "handler"
    /\ req[r].route = "/update-description"
    /\ outbound' = [outbound EXCEPT ![r] = Append(@,
                       [to |-> "jira", method |-> "PUT",
                        url |-> JiraUrl(req[r].body.issueKey),
                        payload |-> JiraPayload(req[r].body.newDescription)])]
    /\ Handle(r, "awaitJira")
    /\ UNCHANGED <<env, responses, console>>

\* What the completion callback of httpClient.put() can be handed: a transport
\* error (no response, no body), or a response with its status and body.
JiraStatuses == {200, 204, 302, 404, 500}
JiraBodies == {Undefined, Str(<<"Issue does not exist">>)}
JiraErrors == {Str(<<"ECONNREFUSED">>)}

JiraOutcomes ==
    [err : JiraErrors, status : {0}, body : {Undefined}]
        \cup [err : {Null}, status : JiraStatuses, body : JiraBodies]

\* (err, response, body) => { if (err || response.statusCode >= 400) ... }
\* (part_000 does not log)
JiraCallbackOutcome(rev, err, statusCode, body) ==
    IF ~Falsy(err) \/ statusCode >= 400
    THEN [log |-> IF rev = "part_000" THEN {}
                  ELSE {<<"Jira update error:">>
                           \o TemplateStr(IF ~Falsy(err) THEN err ELSE body)},
          response |->
              IF body.t = "undefined"
              THEN JsonResponse(500, {"success"}, NoFields)
              ELSE JsonResponse(500, {"success", "error"},
                                [NoFields EXCEPT !.error = TemplateStr(body)])]
    ELSE [log |-> {}, response |-> JsonResponse(200, {"success"},
                                                [NoFields EXCEPT !.success = TRUE])]

JiraCallback(r) ==
    /\ req[r].pc = "awaitJira"
    /\ \E o \in JiraOutcomes :
         LET out == JiraCallbackOutcome(env.rev, o.err, o.status, o.body)
         IN  /\ req' = [req EXCEPT ![r].pc = "done",
                                   ![r].reply.kind = IF Falsy(o.err) THEN "response" ELSE "error",
                                   ![r].reply.status = o.status, ![r].reply.body = o.body]
             /\ Send(r, out.response)
             /\ console' = console \cup out.log
    /\ UNCHANGED <<env, outbound>>

\* ------------------------------------------------------------------ specifications

Next ==
    \E r \in Reqs :
        \/ Receive(r)
        \/ AuthGate(r)
        \/ Health(r)
        \/ Installed(r)
        \/ RenderPanel(r)
        \/ RenderRefiner(r)
        \/ EnhanceDescription(r)
        \/ FetchSettled(r)
        \/ JsonSettled(r, SampleTexts)
        \/ UpdateDescription(r)
        \/ JiraCallback(r)

Spec == Init /\ [][Next]_vars

\* The normalizer specification: one authenticated enhancement request of the
\* latest revision, answered with every text up to MaxLen tokens, fenced or not.
InitNorm ==
    /\ env = [rev |-> "app", apiKey |-> Str(<<SECRET>>), expressErrorHandling |-> FALSE]
    /\ req = [r \in Reqs |->
                 IF r = 1
                 THEN [IdleReq EXCEPT !.pc = "handler",
                                      !.route = "/enhance-description",
                                      !.token = [sigValid |-> TRUE, qshMatch |-> FALSE],
                                      !.body = [NoBody EXCEPT !.currentDescription =
                                                    Str(<<"button doesn't work">>)]]
                 ELSE IdleReq]
    /\ outbound = [r \in Reqs |-> <<>>]
    /\ responses = [r \in Reqs |-> <<>>]
    /\ console = {}

NextNorm ==
    \E r \in {1} :
        \/ EnhanceDescription(r)
        \/ FetchSettled(r)
        \/ JsonSettled(r, AllTexts)

SpecNorm == InitNorm /\ [][NextNorm]_vars

\* Number of request slots of the concurrent specification.
ConcReqs == 2

ConcSlots == 1..ConcReqs

\* The concurrent specification: requests of the latest revision in flight
\* together, each for the health check or an API route, with a good or a badly
\* signed token, the AI answering with one of two texts.
ConcRoutes == {"/health", "/enhance-description", "/update-description"}
ConcTokens == {[sigValid |-> TRUE, qshMatch |-> FALSE], [sigValid |-> FALSE, qshMatch |-> FALSE]}
ConcBodies ==
    [route \in ConcRoutes |->
        IF route = "/enhance-description"
        THEN {[NoBody EXCEPT !.currentDescription = Str(<<"button doesn't work">>)]}
        ELSE IF route = "/update-description"
        THEN {[NoBody EXCEPT !.issueKey = Str(<<"PROJ-1">>), !.newDescription = Str(<<"Fixed">>)],
              [NoBody EXCEPT !.issueKey = Str(<<"PROJ-2">>), !.newDescription = Str(<<"Done">>)]}
        ELSE {NoBody}]
ConcTexts ==
    [pre : {<<TICKS, JSONW, WS>>}, core : {<<"{}">>, <<JSONW>>}, suf : {<<WS, TICKS>>}]

InitConc ==
    /\ env \in [rev : {"app"}, apiKey : {Undefined, Str(<<SECRET>>)},
                expressErrorHandling : {TRUE}]
    /\ req = [r \in ConcSlots |-> IdleReq]
    /\ outbound = [r \in ConcSlots |-> <<>>]
    /\ responses = [r \in ConcSlots |-> <<>>]
    /\ console = {}

ReceiveConc(r) == Arrive(r, ConcRoutes, ConcTokens, ConcBodies)

\* The steps of the request in slot r.
StepConc(r) ==
    \/ ReceiveConc(r)
    \/ AuthGate(r)
    \/ Health(r)
    \/ EnhanceDescription(r)
    \/ FetchSettled(r)
    \/ JsonSettled(r, ConcTexts)
    \/ UpdateDescription(r)
    \/ JiraCallback(r)

NextConc == \E r \in ConcSlots : StepConc(r)

SpecConc == InitConc /\ [][NextConc]_vars

\* ------------------------------------------------------------------ properties

Done(r) == req[r].pc = "done"

\* The one response of a request that has been answered once.
Answer(r) == responses[r][1]

AnsweredOnce(r) == Len(responses[r]) = 1

IsErrorBody(resp, status) ==
    /\ resp.status = status
    /\ resp.type = "json"
    /\ resp.keys = {"success", "error"}
    /\ resp.success = FALSE

\* The handler of an enhancement request has run past its key check.
PastKeyCheck(r) ==
    /\ req[r].route = "/enhance-description"
    /\ req[r].handlerRan

\* C1: an authenticated POST /enhance-description, whatever its body, with
\* GEMINI_API_KEY unset (or empty) is answered 500 with a {success:false, error}
\* body whose error names GEMINI_API_KEY, and no call to the AI provider is
\* issued for it.
C1_MissingKeyFailsWithoutCall ==
    \A r \in Reqs :
        (req[r].route = "/enhance-description" /\ Falsy(env.apiKey)) =>
            /\ outbound[r] = <<>>
            /\ req[r].pc \notin {"awaitFetch", "awaitJson"}
            /\ req[r].handlerRan =>
                  /\ Done(r)
                  /\ AnsweredOnce(r)
                  /\ IsErrorBody(Answer(r), 500)
                  /\ "GEMINI_API_KEY" \in Range(Answer(r).error)

C1_Witness ==
    \E r \in Reqs :
        /\ PastKeyCheck(r)
        /\ env.apiKey = Undefined
        /\ req[r].body = NoBody
        /\ Done(r)
        /\ AnsweredOnce(r)

\* The decoded body of the AI reply of a finished enhancement request.
Decoded(r) ==
    /\ req[r].route = "/enhance-description"
    /\ Done(r)
    /\ req[r].reply.kind = "json"

\* C2: every AI reply whose decoded body lacks candidates[0].content.parts[0].text
\* at some level is answered 500 with {success:false, error:'Invalid Gemini
\* response'}, and with nothing else.
C2_TextlessIsInvalidResponse ==
    \A r \in Reqs :
        (Decoded(r) /\ req[r].reply.data \in TextlessEnvelopes) =>
            responses[r] = <<ErrorResponse(500, <<"Invalid Gemini response">>)>>

\* The AI text of a decoded reply that carries a non-empty one.
HasText(r) ==
    /\ Decoded(r)
    /\ req[r].reply.data = WithText(Str(Wrap(req[r].reply.text)))
    /\ Wrap(req[r].reply.text) # <<>>

SyntaxErrorMessages ==
    {UnexpectedEnd} \cup {UnexpectedToken(c) : c \in Chars}

FencedValidJson(r) ==
    /\ HasText(r)
    /\ env.rev # "part_000"
    /\ req[r].reply.text.pre # <<>>
    /\ req[r].reply.text.suf # <<>>
    /\ JSONParse(req[r].reply.text.core).ok

\* C4: a valid JSON text T wrapped in a json fence (or a bare fence) is
\* normalized to the same result as T unwrapped: only the leading and the
\* trailing fence are removed, and what stands between them is preserved.
C4_FenceTransparent ==
    \A r \in Reqs :
        FencedValidJson(r) =>
            /\ JSONParse(CleanFences(Wrap(req[r].reply.text)))
                   = JSONParse(req[r].reply.text.core)
            /\ Answer(r) = Normalize(env.rev, WithText(Str(req[r].reply.text.core))).response

\* The Jira PUT of a finished update request ended with a 2xx status.
JiraSucceeded(r) ==
    /\ req[r].reply.kind = "response"
    /\ req[r].reply.status \in 200..299

Updated(r) ==
    /\ req[r].route = "/update-description"
    /\ Done(r)
    /\ req[r].handlerRan

\* C5: PUT /update-description answers {success:true} only when the Jira PUT had
\* no transport error and a 2xx status; after any other status or a transport
\* error it answers 500 with success:false and the upstream body as error.
C5_UpdateMirrorsUpstream ==
    \A r \in Reqs :
        Updated(r) =>
            /\ AnsweredOnce(r)
            /\ IF JiraSucceeded(r)
               THEN Answer(r).status = 200 /\ Answer(r).success
               ELSE /\ Answer(r).status = 500
                    /\ ~Answer(r).success
                    /\ req[r].reply.body.t = "str" =>
                          /\ "error" \in Answer(r).keys
                          /\ Answer(r).error = req[r].reply.body.v

\* An error was raised in the chain of a finished API request: the upstream call
\* failed, or its reply could not be decoded.
ChainFailed(r) ==
    /\ req[r].route \in ApiRoutes
    /\ Done(r)
    /\ req[r].handlerRan
    /\ req[r].reply.kind \in {"reject", "nonJson", "error"}

\* C6: every error raised in the chain of POST /enhance-description or of
\* PUT /update-description ends in a 500 response {success:false, error} that
\* carries a message.
C6_ErrorsAnsweredWithMessage ==
    \A r \in Reqs :
        ChainFailed(r) =>
            /\ AnsweredOnce(r)
            /\ IsErrorBody(Answer(r), 500)
            /\ Answer(r).error # <<>>

\* The gate of a protected route refused the request.
Refused(r) ==
    /\ req[r].route \in Protected
    /\ Done(r)
    /\ ~Verify(RouteGate(env.rev, req[r].route) = "skipQsh", req[r].token)

\* C7: on a verification failure both gates answer 401 with a {success:false,
\* error} body, the protected handler is not run, and nothing is retried.
C7_RefusedWithStructured401 ==
    \A r \in Reqs :
        Refused(r) =>
            /\ AnsweredOnce(r)
            /\ IsErrorBody(Answer(r), 401)
            /\ ~req[r].handlerRan
            /\ outbound[r] = <<>>

\* The gate of a protected route has decided on the request.
Gated(r) ==
    /\ req[r].route \in Protected
    /\ req[r].pc \notin {"idle", "gate"}

\* The request was passed on to its handler.
PassedOn(r) == req[r].handlerRan \/ req[r].pc = "handler"

\* C8: the skip-QSH gate passes every request with a validly signed token on to
\* its handler whatever the query hash; the strict gate refuses a validly signed
\* token whose query hash does not match; neither passes an invalid signature.
C8_GateDecisions ==
    \A r \in Reqs :
        Gated(r) =>
            LET gate == IF req[r].route \in ApiRoutes /\ env.rev # "part_000"
                        THEN "skipQsh" ELSE "strict"
                token == req[r].token
            IN  /\ (gate = "skipQsh" /\ token.sigValid) => PassedOn(r)
                /\ (gate = "strict" /\ token.sigValid /\ ~token.qshMatch) => ~PassedOn(r)
                /\ ~token.sigValid => ~PassedOn(r)

C8_Witness ==
    \E r \in Reqs :
        /\ Gated(r)
        /\ req[r].route = "/update-description"
        /\ env.rev = "app"
        /\ req[r].token = [sigValid |-> TRUE, qshMatch |-> FALSE]
        /\ req[r].handlerRan

\* C9: whatever the outcome of the AI call, the configured API key appears in no
\* line the handler logs and in no error string it returns to the caller.
C9_KeyNeverDisclosed ==
    /\ \A line \in console : SECRET \notin Range(line)
    /\ \A r \in Reqs : \A i \in DOMAIN responses[r] : SECRET \notin Range(responses[r][i].error)

\* The request has issued its upstream call.
CallIssued(r) ==
    \/ /\ req[r].route = "/enhance-description"
       /\ req[r].pc \in {"awaitFetch", "awaitJson", "done"}
       /\ req[r].handlerRan
       /\ ~Falsy(env.apiKey)
    \/ /\ req[r].route = "/update-description"
       /\ req[r].pc \in {"awaitJira", "done"}
       /\ req[r].handlerRan

\* C10: an authenticated enhancement request with a key configured issues
\* exactly one POST to the AI provider, and an authenticated update request
\* exactly one PUT to Jira; no request issues a second call, not after a
\* failure either.
C10_OneUpstreamCall ==
    \A r \in Reqs :
        /\ Len(outbound[r]) <= 1
        /\ CallIssued(r) =>
              /\ Len(outbound[r]) = 1
              /\ IF req[r].route = "/enhance-description"
                 THEN outbound[r][1].to = "gemini" /\ outbound[r][1].method = "POST"
                 ELSE outbound[r][1].to = "jira" /\ outbound[r][1].method = "PUT"

C10_Witness ==
    \E r \in Reqs :
        /\ CallIssued(r)
        /\ Done(r)
        /\ req[r].reply.kind \in {"reject", "error"}
        /\ Len(outbound[r]) = 1

\* The upstream call of the request is outstanding.
Pending(r) == req[r].pc \in {"awaitFetch", "awaitJson", "awaitJira"}

\* What one finished request, taken alone, is answered and sends upstream: a
\* function of the configuration and of the request's own route, credentials,
\* body and upstream reply.
Served(e, q) ==
    LET gate == RouteGate(e.rev, q.route)
        url == GeminiUrl(e.apiKey)
        fetched == <<[to |-> "gemini", method |-> "POST", url |-> url,
                      payload |-> GeminiPayload(e.rev, q.body.currentDescription)]>>
        put == <<[to |-> "jira", method |-> "PUT", url |-> JiraUrl(q.body.issueKey),
                  payload |-> JiraPayload(q.body.newDescription)]>>
        Only(resp, calls) == [responses |-> <<resp>>, outbound |-> calls]
    IN  IF q.route \in Protected /\ ~Verify(gate = "skipQsh", q.token)
        THEN Only(GateReject(gate, e.expressErrorHandling, q.token).response, <<>>)
        ELSE IF q.route = "/enhance-description"
        THEN IF Falsy(e.apiKey) THEN Only(MissingKeyResponse(e.rev), <<>>)
             ELSE IF q.reply.kind = "reject"
             THEN Only(CatchGemini(e.rev, FetchFailedMessage(url)).response, fetched)
             ELSE IF q.reply.kind = "nonJson"
             THEN Only(CatchGemini(e.rev, InvalidBodyMessage(url)).response, fetched)
             ELSE Only(Normalize(e.rev, q.reply.data).response, fetched)
        ELSE IF q.route = "/update-description"
        THEN Only(JiraCallbackOutcome(e.rev, IF q.reply.kind = "error"
                                             THEN Str(<<"ECONNREFUSED">>) ELSE Null,
                                      q.reply.status, q.reply.body).response, put)
        ELSE Only(OtherResponse(200, "text"), <<>>)

\* C11: whatever the interleaving, a request whose AI call or Jira PUT is
\* outstanding keeps no other request from being dispatched and answered (every
\* unfinished request has a step it can take), and what a request is answered
\* and what it sends upstream are those of the same request taken alone: they
\* depend on its own route, credentials, body and upstream reply, and on
\* nothing another request wrote.
C11_RequestsIndependent ==
    \A r \in ConcSlots :
        /\ \A q \in ConcSlots \ {r} : (Pending(r) /\ ~Done(q)) => ENABLED StepConc(q)
        /\ Done(r) =>
              /\ responses[r] = Served(env, req[r]).responses
              /\ outbound[r] = Served(env, req[r]).outbound

C11_Witness ==
    \E r \in ConcSlots : \E q \in ConcSlots \ {r} :
        /\ req[r].pc = "awaitFetch"
        /\ req[q].route = "/enhance-description"
        /\ Done(q)
        /\ req[q].reply.kind = "json"
        /\ AnsweredOnce(q)

\* The update request has issued its PUT.
PutIssued(r) ==
    /\ req[r].route = "/update-description"
    /\ outbound[r] # <<>>

\* x is an object with exactly the properties keys.
HasExactly(x, keys) == x.t = "obj" /\ DOMAIN x.v = keys

\* x is an array of one element.
IsSingleton(x) == x.t = "arr" /\ Len(x.v) = 1

\* C12: the document PUT /update-description places in its Jira payload is
\* exactly {type:'doc', version:1, content:[one paragraph of one text node]};
\* the text read back from fields.description.content[0].content[0].text is
\* newDescription as it was sent; the target URL ends in the given issueKey.
C12_DocumentRoundTrip ==
    \A r \in Reqs :
        PutIssued(r) =>
            LET call == outbound[r][1]
                doc == Get(Get(call.payload, "fields"), "description")
                paragraph == At(Get(doc, "content"), 0)
                node == At(Get(paragraph, "content"), 0)
                issueKey == req[r].body.issueKey
            IN  /\ HasExactly(call.payload, {"fields"})
                /\ HasExactly(Get(call.payload, "fields"), {"description"})
                /\ HasExactly(doc, {"type", "version", "content"})
                /\ Get(doc, "type") = Str(<<"doc">>)
                /\ Get(doc, "version") = Num(1)
                /\ IsSingleton(Get(doc, "content"))
                /\ HasExactly(paragraph, {"type", "content"})
                /\ Get(paragraph, "type") = Str(<<"paragraph">>)
                /\ IsSingleton(Get(paragraph, "content"))
                /\ HasExactly(node, {"type", "text"})
                /\ Get(node, "type") = Str(<<"text">>)
                /\ Get(node, "text") = req[r].body.newDescription
                /\ issueKey.t = "str"
                /\ call.url = <<"/rest/api/3/issue/">> \o issueKey.v
                /\ SubSeq(call.url, Len(call.url) - Len(issueKey.v) + 1, Len(call.url))
                       = issueKey.v

C12_Witness ==
    \E r \in Reqs :
        /\ PutIssued(r)
        /\ req[r].body.newDescription = Str(<<QUOTE, "Fixed", QUOTE, WS>>)
        /\ req[r].body.issueKey = Str(<<"PROJ-2">>)

\* The request is for a protected route and its token does not pass the gate
\* of that route.
FailsGate(r) ==
    /\ req[r].route \in Protected
    /\ ~Verify(RouteGate(env.rev, req[r].route) = "skipQsh", req[r].token)

ApiStep(r) ==
    \/ AuthGate(r)
    \/ EnhanceDescription(r)
    \/ FetchSettled(r)
    \/ JsonSettled(r, SampleTexts)
    \/ UpdateDescription(r)
    \/ JiraCallback(r)

\* C14: a request for POST /enhance-description or PUT /update-description is
\* answered exactly once.  While it is on its way (at the gate, in the handler,
\* or waiting for the AI provider or for Jira) nothing has been sent and it has
\* a step left to take, so it cannot end unanswered; when it has finished, on
\* the refusal of the gate, the missing key, the catch block, the callback or
\* the success path, exactly one response has been sent.
C14_ExactlyOneResponse ==
    \A r \in Reqs :
        req[r].route \in ApiRoutes =>
            /\ Len(responses[r]) <= 1
            /\ Done(r) <=> AnsweredOnce(r)
            /\ ~Done(r) => ENABLED ApiStep(r)

C14_Witness ==
    \E r \in Reqs :
        /\ req[r].handlerRan
        /\ req[r].route \in ApiRoutes
        /\ req[r].reply.kind \in {"reject", "nonJson", "error"}
        /\ Done(r)
        /\ AnsweredOnce(r)
        /\ Answer(r).status = 500

====
